---- MODULE Spec2Model ----
(***************************************************************************)
(* Model of src/main.py: the Cloud Function disable_billing_for_projects   *)
(* and its helper _disable_billing_for_project.                            *)
(*                                                                         *)
(* Strings that the code takes apart or composes (resource paths, the      *)
(* value of SIMULATE_DEACTIVATION) are sequences of tokens, so that        *)
(* str.split, str.lower and f-string composition are computed, not         *)
(* assumed.  Opaque strings (ids, error details) are plain strings.        *)
(***************************************************************************)
EXTENDS Integers, Sequences, FiniteSets, TLC

\* ------------------------------------------------------------------ bounds
\* Amounts in the payload range over 0..MaxAmount.
MaxAmount == 1
\* A resolved scope lists at most MaxTargets project paths.
MaxTargets == 2

\* Largest number of projects in the scope of each of two invocations that
\* run at the same time.
MaxConcurrentTargets == 1

\* ------------------------------------------------------- environment values
\* The path separator used by split("/") and by the f-strings.
SEP == "/"

\* Entities known to the billing service, by fully-qualified name.
EntityNames == { <<"projects", SEP, "P1">>, <<"projects", SEP, "P2">> }

\* Paths a budget filter may list: two projects the service knows, one it
\* does not know, one whose suffix holds a separator, one without separator.
ScopePaths ==
    { <<"projects", SEP, "P1">>,
      <<"projects", SEP, "P2">>,
      <<"projects", SEP, "P3">>,
      <<"projects", SEP, "P1", SEP, "x">>,
      <<"P2">> }

Amounts == 0..MaxAmount

\* Dictionaries are functions over the keys present.
Dicts(keys, vals) == UNION { [ks -> vals] : ks \in SUBSET keys }

\* The process environment, as far as the code reads it: SIMULATE_DEACTIVATION
\* is unset or holds one of these strings.
Environs ==
    Dicts({"SIMULATE_DEACTIVATION"},
          { <<"t", "r", "u", "e">>,
            <<"T", "r", "u", "e">>,
            <<"f", "a", "l", "s", "e">> })

\* The decoded JSON payload.
Payloads == Dicts({"costAmount", "budgetAmount"}, Amounts)

\* The Pub/Sub message attributes.
AttributeDicts == Dicts({"budgetId", "billingAccountId"}, {"", "id"})

\* Sequences over S of length 0..n.
SeqUpTo(S, n) == UNION { [1..k -> S] : k \in 0..n }

\* What budget_client.get_budget may do: raise, or return a budget that has
\* no filter or a filter listing project paths.
BudgetResponses ==
    { [kind |-> "raise", detail |-> d, has_filter |-> FALSE, projects |-> <<>>]
        : d \in {"API Error", "Not Found"} }
    \cup
    { [kind |-> "ok", detail |-> "", has_filter |-> FALSE, projects |-> <<>>] }
    \cup
    { [kind |-> "ok", detail |-> "", has_filter |-> TRUE, projects |-> ps]
        : ps \in SeqUpTo(ScopePaths, MaxTargets) }

\* What billing_client.update_project_billing_info may do for a name: the
\* service accepts the write only for an entity it knows.
UpdateResponses(name) ==
    (IF name \in EntityNames THEN { [kind |-> "ok", detail |-> ""] } ELSE {})
    \cup
    { [kind |-> "PermissionDenied", detail |-> "Permission Denied"],
      [kind |-> "Exception", detail |-> "API Error"] }

\* ------------------------------------------------------------ pure helpers
\* str.lower on a token string.
LowerChar(c) ==
    CASE c = "T" -> "t"
      [] c = "R" -> "r"
      [] c = "U" -> "u"
      [] c = "E" -> "e"
      [] OTHER -> c

Lower(s) == [i \in DOMAIN s |-> LowerChar(s[i])]

\* dict.get(key, default), os.getenv(key, default)
DictGet(d, key, default) == IF key \in DOMAIN d THEN d[key] ELSE default

\* Variant: the comparison without .lower().
SimulateDeactivation_exact(environ) ==
    DictGet(environ, "SIMULATE_DEACTIVATION", <<"f", "a", "l", "s", "e">>)
        = <<"t", "r", "u", "e">>

\* os.getenv("SIMULATE_DEACTIVATION", "false")
Getenv(environ) ==
    DictGet(environ, "SIMULATE_DEACTIVATION", <<"f", "a", "l", "s", "e">>)

\* os.getenv("SIMULATE_DEACTIVATION", "false").lower() == "true"
SimulateDeactivation(environ) ==
    Lower(Getenv(environ)) = <<"t", "r", "u", "e">>

\* str.split(sep): the pieces between the separators.
RECURSIVE Split(_, _)
Split(s, sep) ==
    IF \A i \in DOMAIN s : s[i] # sep
    THEN << s >>
    ELSE LET k == CHOOSE i \in DOMAIN s :
                      s[i] = sep /\ \A j \in 1..(i - 1) : s[j] # sep
         IN  << SubSeq(s, 1, k - 1) >> \o Split(SubSeq(s, k + 1, Len(s)), sep)

\* p.split("/")[1] raises IndexError when there is no second piece.
SplitRaises(p) == Len(Split(p, SEP)) < 2

\* p.split("/")[1]
ProjectIdOf(p) == Split(p, SEP)[2]

\* f"projects/{project_id}"
ProjectName(project_id) == <<"projects", SEP>> \o project_id

\* f"billingAccounts/{billing_account_id}/budgets/{budget_id}"
BudgetName(billing_account_id, budget_id) ==
    <<"billingAccounts", SEP, billing_account_id, SEP, "budgets", SEP, budget_id>>

\* One logging call: severity, message template, interpolated values.
Entry(level, msg, args) == [level |-> level, msg |-> msg, args |-> args]

\* Variant: strict comparison, so that equality counts as exceeded.
NotExceeded_strict(cost_amount, budget_amount) == cost_amount < budget_amount

\* cost_amount <= budget_amount: the threshold has not been exceeded.
NotExceeded(cost_amount, budget_amount) == cost_amount <= budget_amount

\* Variant: "s is None", which dict.get(key, "") never yields.
Falsy_none(s) == FALSE

\* "not s" for a string: it is empty.
Falsy(s) == s = ""

\* Variant: only the filter is tested, not its project list.
NotScoped_filter_only(b) == ~b.has_filter

\* "not budget.budget_filter or not budget.budget_filter.projects"
NotScoped(b) == ~b.has_filter \/ b.projects = << >>

\* Variant: the ids come out in reverse order.
ProjectIds_reversed(projects) ==
    [i \in DOMAIN projects |-> ProjectIdOf(projects[Len(projects) + 1 - i])]

\* [p.split("/")[1] for p in budget.budget_filter.projects]
ProjectIds(projects) == [i \in DOMAIN projects |-> ProjectIdOf(projects[i])]

\* A budget value before any lookup has returned.
NoBudget == [kind |-> "none", detail |-> "", has_filter |-> FALSE, projects |-> << >>]

EmptyDict == [k \in {} |-> 0]

\* One client call: the method, the resource name, the request body, and
\* the response (returned or raised).
Call(api, name, body, response) ==
    [api |-> api, name |-> name, body |-> body, response |-> response]

\* Variant: the request keeps a billing account, so the project stays linked.
DisableRequest_attach == [billing_account_name |-> "billingAccounts/id"]

\* billing_v1.ProjectBillingInfo(billing_account_name="")
DisableRequest == [billing_account_name |-> ""]

\* Variant: a failed lookup is swallowed and handled like a budget without
\* projects.
ResolveResult_swallow(r, budget_id) ==
    IF r.kind = "raise" \/ NotScoped(r)
    THEN [pc |-> "done",
          entries |-> << Entry("WARNING", "Budget {} is not scoped to any projects. No action taken.",
                               << budget_id >>) >>]
    ELSE IF \E i \in DOMAIN r.projects : SplitRaises(r.projects[i])
    THEN [pc |-> "raised", entries |-> << >>]
    ELSE [pc |-> "loop", entries |-> << >>]

\* Lines 87-99 after get_budget has answered r: where control goes and what
\* is logged after the "has exceeded" entry.
ResolveResult(r, budget_id) ==
    IF r.kind = "raise"
    THEN [pc |-> "done",
          entries |-> << Entry("ERROR", "Error getting budget details: {}", << r.detail >>) >>]
    ELSE IF NotScoped(r)
    THEN [pc |-> "done",
          entries |-> << Entry("WARNING", "Budget {} is not scoped to any projects. No action taken.",
                               << budget_id >>) >>]
    ELSE IF \E i \in DOMAIN r.projects : SplitRaises(r.projects[i])
    THEN [pc |-> "raised", entries |-> << >>]       \* IndexError at line 99
    ELSE [pc |-> "loop", entries |-> << >>]

\* Variant: "except Exception" comes first and takes PermissionDenied too.
DisableEntries_generic(project_id, r) ==
    IF r.kind = "ok"
    THEN << Entry("INFO", "Successfully disabled billing for project {}", << project_id >>) >>
    ELSE << Entry("ERROR", "Error disabling billing for project {}: {}",
                  << ProjectName(project_id), r.detail >>) >>

\* Lines 123-132: what _disable_billing_for_project logs once
\* update_project_billing_info has answered r.
DisableEntries(project_id, r) ==
    IF r.kind = "ok"
    THEN << Entry("INFO", "Successfully disabled billing for project {}", << project_id >>) >>
    ELSE IF r.kind = "PermissionDenied"
    THEN << Entry("ERROR", "Failed to disable billing for {}, check permissions: {}",
                  << ProjectName(project_id), r.detail >>) >>
    ELSE << Entry("ERROR", "Error disabling billing for project {}: {}",
                  << ProjectName(project_id), r.detail >>) >>

\* Variant: the accepted write flips the project's link instead of setting it.
Unlinked_toggle(enabled, name, request) ==
    [enabled EXCEPT ![name] = ~enabled[name]]

\* The billing service after it accepted update_project_billing_info for a
\* known project: the project is linked exactly when the request names a
\* billing account, so the empty name of line 125 clears the link.
Unlinked(enabled, name, request) ==
    [enabled EXCEPT ![name] = (request.billing_account_name # "")]

\* Variant: the loop is left after its first iteration (a return in the body).
LoopAdvance_stop(i, n) == "done"

\* "for project_id in project_ids": after iteration i of n the loop goes on
\* or is exhausted.
LoopAdvance(i, n) == IF i = n THEN "done" ELSE "loop"

\* Variant: the simulation flag is ignored.
Simulated_never(environ) == FALSE

\* "if simulate_deactivation" with the flag as read at line 105.
Simulated(environ) == SimulateDeactivation(environ)

\* What billing_client.get_project_billing_info would answer for a name at
\* this moment: the entity's flag, or an error for a name the service does
\* not know.  src/main.py never asks; the answer is recorded beside each loop
\* iteration for the properties about it.
WouldRead(name, enabled) ==
    IF name \in EntityNames
    THEN (IF enabled[name] THEN "enabled" ELSE "disabled")
    ELSE "raise"

\* -------------------------------------------------------------------- state
VARIABLES
    pc,               \* "idle", "get_budget", "loop", "done" or "raised"
    message_json,     \* payload of the notification being handled
    attributes,       \* attributes of the notification being handled
    budget,           \* what get_budget returned to this invocation
    project_ids,      \* ids extracted from the resolved scope
    idx,              \* position of the per-project loop, 1-based
    environ,          \* the process environment
    billing_enabled,  \* the billing service: entity name -> linked or not
    log,              \* entries emitted by the current invocation
    calls,            \* client calls made by the current invocation
    iters,            \* per loop iteration: what os.getenv returned, what a
                      \* billing-state read would have reported, and the
                      \* slices of log and calls the iteration produced
    billing_at_start, \* billing_enabled when the invocation began
    other             \* a second invocation of the function: the one that is
                      \* not running at the moment (concurrent requests), or
                      \* the finished first delivery of the notification
                      \* being handled again (redelivery); idle otherwise

vars == << pc, message_json, attributes, budget, project_ids, idx, environ,
           billing_enabled, log, calls, iters, billing_at_start, other >>

\* The function-local state of the invocation that is running.
Locals ==
    [pc |-> pc, message_json |-> message_json, attributes |-> attributes,
     budget |-> budget, project_ids |-> project_ids, idx |-> idx,
     log |-> log, calls |-> calls, iters |-> iters,
     billing_at_start |-> billing_at_start]

\* The function-local state of an invocation that has not begun (it has
\* seen no billing state yet).
Fresh ==
    [pc |-> "idle", message_json |-> EmptyDict, attributes |-> EmptyDict,
     budget |-> NoBudget, project_ids |-> << >>, idx |-> 1,
     log |-> << >>, calls |-> << >>, iters |-> << >>,
     billing_at_start |-> EmptyDict]

Init ==
    /\ pc = "idle"
    /\ message_json = EmptyDict
    /\ attributes = EmptyDict
    /\ budget = NoBudget
    /\ project_ids = << >>
    /\ idx = 1
    /\ environ \in Environs
    /\ billing_enabled \in [EntityNames -> BOOLEAN]
    /\ log = << >>
    /\ calls = << >>
    /\ iters = << >>
    /\ billing_at_start = billing_enabled
    /\ other = Fresh

\* ------------------------------------------------------------------ actions
\* Lines 55-82 for a notification with payload m and attributes a: the
\* payload is decoded, the threshold is evaluated and the two attributes are
\* validated.
InvokeGiven(m, a) ==
    /\ LET invoked == Entry("INFO", "Cloud Run Function invoked from Pub/Sub message.", << >>)
           budget_id == DictGet(a, "budgetId", "")
           billing_account_id == DictGet(a, "billingAccountId", "")
       IN  /\ message_json' = m
           /\ attributes' = a
           /\ IF "costAmount" \notin DOMAIN m \/ "budgetAmount" \notin DOMAIN m
              THEN \* KeyError at line 65 or 66
                   /\ pc' = "raised"
                   /\ log' = << invoked >>
              ELSE IF NotExceeded(m["costAmount"], m["budgetAmount"])
              THEN /\ pc' = "done"
                   /\ log' = << invoked,
                                Entry("INFO", "Cost ({}) has not exceeded budget ({}). No action taken.",
                                      << m["costAmount"], m["budgetAmount"] >>) >>
              ELSE IF Falsy(billing_account_id)
              THEN /\ pc' = "done"
                   /\ log' = << invoked,
                                Entry("ERROR", "No billingAccountId found in message payload.", << >>) >>
              ELSE IF Falsy(budget_id)
              THEN /\ pc' = "done"
                   /\ log' = << invoked,
                                Entry("ERROR", "No budgetId found in message attributes.", << >>) >>
              ELSE /\ pc' = "get_budget"
                   /\ log' = << invoked >>
    /\ budget' = NoBudget
    /\ project_ids' = << >>
    /\ idx' = 1
    /\ calls' = << >>
    /\ iters' = << >>
    /\ billing_at_start' = billing_enabled
    /\ UNCHANGED << environ, billing_enabled, other >>

\* Lines 55-82: a notification arrives.
Invoke ==
    /\ pc = "idle"
    /\ \E m \in Payloads, a \in AttributeDicts : InvokeGiven(m, a)

\* Lines 85-99 when budget_client.get_budget answers r: the budget lookup,
\* the scope check and the id extraction.
GetBudgetGiven(r) ==
    /\ LET budget_id == DictGet(attributes, "budgetId", "")
           billing_account_id == DictGet(attributes, "billingAccountId", "")
           budget_name == BudgetName(billing_account_id, budget_id)
           exceeded == Entry("INFO", "Cost {} has exceeded budget {} for budget {}.",
                             << message_json["costAmount"], message_json["budgetAmount"], budget_id >>)
           res == ResolveResult(r, budget_id)
       IN  /\ calls' = Append(calls, Call("get_budget", budget_name, "none", r))
           /\ log' = log \o << exceeded >> \o res.entries
           /\ budget' = IF r.kind = "raise" THEN budget ELSE r
           /\ project_ids' = IF res.pc = "loop" THEN ProjectIds(r.projects) ELSE project_ids
           \* a for loop over no ids ends at once
           /\ pc' = IF res.pc = "loop" /\ ProjectIds(r.projects) = << >> THEN "done" ELSE res.pc
    /\ UNCHANGED << message_json, attributes, idx, environ, billing_enabled,
                    iters, billing_at_start, other >>

\* Lines 85-99: the invocation looks its budget up.
GetBudget ==
    /\ pc = "get_budget"
    /\ \E r \in BudgetResponses : GetBudgetGiven(r)

\* Lines 101-110 and 113-132: one iteration of the per-project loop.
LoopStep ==
    /\ pc = "loop"
    /\ LET project_id == project_ids[idx]
           project_name == ProjectName(project_id)
           disabling == Entry("INFO", "Disabling billing for {}...", << project_id >>)
           simulate_deactivation == Simulated(environ)
       IN  /\ IF simulate_deactivation
              THEN /\ log' = log \o << disabling,
                                       Entry("INFO", "SIMULATION MODE: Billing would have been disabled for project {}.",
                                             << project_id >>) >>
                   /\ UNCHANGED << calls, billing_enabled >>
              ELSE \E r \in UpdateResponses(project_name) :
                   /\ calls' = Append(calls, Call("update_project_billing_info", project_name,
                                                  DisableRequest, r))
                   /\ billing_enabled' = IF r.kind = "ok"
                                         THEN Unlinked(billing_enabled, project_name, DisableRequest)
                                         ELSE billing_enabled
                   /\ log' = log \o << disabling >> \o DisableEntries(project_id, r)
           /\ iters' = Append(iters, [getenv |-> Getenv(environ),
                                        would_read |-> WouldRead(project_name, billing_enabled),
                                        calls_from |-> Len(calls) + 1, calls_to |-> Len(calls'),
                                        log_from |-> Len(log) + 1, log_to |-> Len(log')])
    /\ idx' = idx + 1
    /\ pc' = LoopAdvance(idx, Len(project_ids))
    /\ UNCHANGED << message_json, attributes, budget, project_ids, environ,
                    billing_at_start, other >>

\* The operator of the deployment changes SIMULATE_DEACTIVATION.
SetEnv ==
    /\ \E e \in Environs : e # environ /\ environ' = e
    /\ UNCHANGED << pc, message_json, attributes, budget, project_ids, idx,
                    billing_enabled, log, calls, iters, billing_at_start, other >>

\* The function returns (or its exception reaches the runtime): the locals
\* are gone and the instance is ready for the next notification.  Only the
\* environment and the billing service keep their state.
Return ==
    /\ pc \in {"done", "raised"}
    /\ pc' = "idle"
    /\ message_json' = EmptyDict
    /\ attributes' = EmptyDict
    /\ budget' = NoBudget
    /\ project_ids' = << >>
    /\ idx' = 1
    /\ log' = << >>
    /\ calls' = << >>
    /\ iters' = << >>
    /\ billing_at_start' = billing_enabled
    /\ UNCHANGED << environ, billing_enabled, other >>

Next == Invoke \/ GetBudget \/ LoopStep \/ SetEnv \/ Return

Spec == Init /\ [][Next]_vars

\* The locals of the running invocation are dropped (return, or exception
\* passed to the runtime).
ResetLocals ==
    /\ pc' = "idle"
    /\ message_json' = EmptyDict
    /\ attributes' = EmptyDict
    /\ budget' = NoBudget
    /\ project_ids' = << >>
    /\ idx' = 1
    /\ log' = << >>
    /\ calls' = << >>
    /\ iters' = << >>
    /\ billing_at_start' = billing_enabled

\* ------------------------------------------------------------- redelivery
\* Pub/Sub delivers at least once: the notification just handled arrives a
\* second time.  The first run is kept in "other" for comparison; nothing of
\* it stays in the function (lines 58-110 use locals only).
Redeliver ==
    /\ pc \in {"done", "raised"}
    /\ other.pc = "idle"
    /\ other' = Locals
    /\ ResetLocals
    /\ UNCHANGED << environ, billing_enabled >>

\* The second run is given the answers the first run was given.
SameAnswers ==
    \A k \in DOMAIN calls :
        /\ k \in DOMAIN other.calls
        /\ calls[k].response = other.calls[k].response

\* A delivery begins: any notification the first time, the same one again
\* the second time.
DeliveryInvoke ==
    IF other.pc = "idle"
    THEN Invoke
    ELSE pc = "idle" /\ InvokeGiven(other.message_json, other.attributes)

DeliveryGetBudget ==
    IF other.pc = "idle"
    THEN GetBudget
    ELSE pc = "get_budget" /\ GetBudgetGiven(other.calls[1].response)

DeliveryLoopStep ==
    /\ LoopStep
    /\ other.pc # "idle" => SameAnswers'

\* The second run has ended too.
RedeliveryEnds ==
    /\ pc \in {"done", "raised"}
    /\ other.pc # "idle"
    /\ other' = Fresh
    /\ ResetLocals
    /\ UNCHANGED << environ, billing_enabled >>

\* SIMULATE_DEACTIVATION is changed while no delivery is being handled.
SetEnvBetween ==
    /\ pc = "idle" /\ other.pc = "idle"
    /\ SetEnv

NextRedelivery ==
    \/ DeliveryInvoke
    \/ DeliveryGetBudget
    \/ DeliveryLoopStep
    \/ Redeliver
    \/ RedeliveryEnds
    \/ SetEnvBetween

SpecRedelivery == Init /\ [][NextRedelivery]_vars

\* ------------------------------------------------------------ concurrency
\* Variant: project_ids is module-level state shared by the invocations.
Switch_shared_ids ==
    /\ pc # "idle" \/ other.pc # "idle"
    /\ other' = Locals
    /\ pc' = other.pc
    /\ message_json' = other.message_json
    /\ attributes' = other.attributes
    /\ budget' = other.budget
    /\ idx' = other.idx
    /\ log' = other.log
    /\ calls' = other.calls
    /\ iters' = other.iters
    /\ billing_at_start' = other.billing_at_start
    /\ UNCHANGED << project_ids, environ, billing_enabled >>

\* Two requests are served at the same time: the runtime stops running one
\* invocation and goes on with the other.  Each invocation keeps its own
\* locals; the environment, the module-level clients (lines 46-47) and the
\* billing service behind them are shared.
Switch ==
    /\ pc # "idle" \/ other.pc # "idle"
    /\ other' = Locals
    /\ pc' = other.pc
    /\ message_json' = other.message_json
    /\ attributes' = other.attributes
    /\ budget' = other.budget
    /\ project_ids' = other.project_ids
    /\ idx' = other.idx
    /\ log' = other.log
    /\ calls' = other.calls
    /\ iters' = other.iters
    /\ billing_at_start' = other.billing_at_start
    /\ UNCHANGED << environ, billing_enabled >>

\* A notification whose cost exceeds its budget and whose attributes are
\* complete arrives (the amounts play no part after line 69: one pair).
ConcurrentInvoke ==
    /\ pc = "idle"
    /\ \E a \in AttributeDicts :
          InvokeGiven([costAmount |-> MaxAmount, budgetAmount |-> 0], a)
    /\ pc' = "get_budget"

\* The lookup of an invocation that runs beside another one: the scope it
\* is given lists at most MaxConcurrentTargets projects, all known.
ConcurrentGetBudget ==
    /\ pc = "get_budget"
    /\ \E r \in BudgetResponses :
          /\ Len(r.projects) <= MaxConcurrentTargets
          /\ \A k \in DOMAIN r.projects : r.projects[k] \in EntityNames
          /\ GetBudgetGiven(r)

\* Both invocations have ended.
ConcurrentReturn ==
    /\ pc \in {"done", "raised"}
    /\ other.pc \in {"done", "raised"}
    /\ other' = Fresh
    /\ ResetLocals
    /\ UNCHANGED << environ, billing_enabled >>

NextConcurrent ==
    \/ ConcurrentInvoke
    \/ ConcurrentGetBudget
    \/ LoopStep
    \/ Switch
    \/ ConcurrentReturn

SpecConcurrent == Init /\ [][NextConcurrent]_vars

\* ---------------------------------------------------------------- typing
TypeOK ==
    /\ pc \in {"idle", "get_budget", "loop", "done", "raised"}
    /\ message_json \in Payloads
    /\ attributes \in AttributeDicts
    /\ environ \in Environs
    /\ billing_enabled \in [EntityNames -> BOOLEAN]
    /\ idx \in 1..(MaxTargets + 1)
    /\ Len(project_ids) <= MaxTargets
    /\ Len(iters) <= Len(project_ids)

\* ------------------------------------------------------------- vocabulary
\* The notification being handled carries both amounts.
HasAmounts == {"costAmount", "budgetAmount"} \subseteq DOMAIN message_json

Cost == message_json["costAmount"]

Budget == message_json["budgetAmount"]

\* An attribute is missing: absent or empty.
MissingAttr(key) == key \notin DOMAIN attributes \/ attributes[key] = ""

\* The value v of SIMULATE_DEACTIVATION says true, in any letter case.
EnvTrue(v) == v \in { <<"t", "r", "u", "e">>, <<"T", "r", "u", "e">> }

\* Budget lookups (Resolver calls) and billing writes (Deactivator calls) of
\* the invocation, in order.
Lookups == SelectSeq(calls, LAMBDA c : c.api = "get_budget")

Updates == SelectSeq(calls, LAMBDA c : c.api = "update_project_billing_info")

\* The entries of one severity; the entries made from one template.
Entries(level) == SelectSeq(log, LAMBDA e : e.level = level)

WithMsg(msg) == SelectSeq(log, LAMBDA e : e.msg = msg)

\* The client calls and the log entries of loop iteration i.
CallsOf(i) == SubSeq(calls, iters[i].calls_from, iters[i].calls_to)

LogOf(i) == SubSeq(log, iters[i].log_from, iters[i].log_to)

MsgNotExceeded == "Cost ({}) has not exceeded budget ({}). No action taken."

MsgNoAccount == "No billingAccountId found in message payload."

MsgNoBudgetId == "No budgetId found in message attributes."

MsgLookupFailed == "Error getting budget details: {}"

MsgNotScoped == "Budget {} is not scoped to any projects. No action taken."

MsgSimulated == "SIMULATION MODE: Billing would have been disabled for project {}."

MsgSucceeded == "Successfully disabled billing for project {}"

MsgPermission == "Failed to disable billing for {}, check permissions: {}"

MsgOtherError == "Error disabling billing for project {}: {}"

\* The DeactivationOutcome of iteration i, as its log entries tell it.
OutcomeAt(i) ==
    LET has(msg) == \E k \in DOMAIN LogOf(i) : LogOf(i)[k].msg = msg
    IN  IF has(MsgSimulated) THEN "Simulated"
        ELSE IF has(MsgSucceeded) THEN "Succeeded"
        ELSE IF has(MsgPermission) THEN "Failed:permission"
        ELSE IF has(MsgOtherError) THEN "Failed:other"
        ELSE "none"

\* The outcome iteration i must have when it depends on nothing but the
\* flag it ran under and the answer to its own write.
OwnOutcome(i) ==
    IF EnvTrue(iters[i].getenv) THEN "Simulated"
    ELSE IF Len(CallsOf(i)) # 1 THEN "none"
    ELSE LET kind == CallsOf(i)[1].response.kind
         IN  IF kind = "ok" THEN "Succeeded"
             ELSE IF kind = "PermissionDenied" THEN "Failed:permission"
             ELSE "Failed:other"

\* ------------------------------------------------------------------ claims
\* C1: a notification with costAmount <= budgetAmount (equality included)
\* makes no client call at all (no lookup, no read, no write) and emits an
\* INFO entry carrying both the cost and the budget.
C1_NotExceededNoAction ==
    (pc # "idle" /\ HasAmounts /\ Cost <= Budget) =>
        /\ calls = << >>
        /\ \E k \in DOMAIN log :
              /\ log[k].level = "INFO"
              /\ log[k].msg = MsgNotExceeded
              /\ log[k].args = << Cost, Budget >>

C1_Witness ==
    /\ pc = "done" /\ HasAmounts /\ Cost = Budget
    /\ calls = << >>
    /\ log[Len(log)].msg = MsgNotExceeded

\* A scope path of the form {collection}/{id}, the id free of separators.
IsTargetPath(p) == Len(p) = 3 /\ p[1] # SEP /\ p[2] = SEP /\ p[3] # SEP

C3_PermissionDeniedIsolated ==
    \A i \in DOMAIN iters :
        (\E k \in DOMAIN CallsOf(i) : CallsOf(i)[k].response.kind = "PermissionDenied") =>
            /\ OutcomeAt(i) = "Failed:permission"
            /\ \E k \in DOMAIN LogOf(i) :
                  /\ LogOf(i)[k].level = "ERROR"
                  /\ LogOf(i)[k].msg = MsgPermission
                  /\ LogOf(i)[k].args = << CallsOf(i)[1].name, CallsOf(i)[1].response.detail >>
            /\ pc \in {"loop", "done"}
            /\ pc = "loop" => Len(iters) < Len(budget.projects) /\ idx = Len(iters) + 1
            /\ pc = "done" =>
                  /\ Len(iters) = Len(budget.projects)
                  /\ \A j \in DOMAIN iters : j # i =>
                        /\ OutcomeAt(j) = OwnOutcome(j)
                        /\ OutcomeAt(j) # "none"

C3_Witness ==
    /\ pc = "done" /\ Len(iters) = 2
    /\ Len(CallsOf(1)) = 1 /\ CallsOf(1)[1].response.kind = "PermissionDenied"
    /\ OutcomeAt(1) = "Failed:permission"
    /\ OutcomeAt(2) = "Succeeded"

\* C4: a target handled while SIMULATE_DEACTIVATION says true gets no write
\* and a SIMULATION MODE entry naming it; when every target of the scope was
\* handled so, each has the outcome Simulated and the billing state of every
\* entity is what it was when the invocation began.
C4_SimulationWritesNothing ==
    /\ \A i \in DOMAIN iters : EnvTrue(iters[i].getenv) =>
          /\ CallsOf(i) = << >>
          /\ OutcomeAt(i) = "Simulated"
          /\ \E k \in DOMAIN LogOf(i) :
                /\ LogOf(i)[k].level = "INFO"
                /\ LogOf(i)[k].msg = MsgSimulated
                /\ LogOf(i)[k].args = << project_ids[i] >>
    /\ (\A i \in DOMAIN iters : EnvTrue(iters[i].getenv)) =>
          /\ Updates = << >>
          /\ billing_enabled = billing_at_start
          /\ (pc = "done" /\ budget.kind = "ok") => Len(iters) = Len(budget.projects)

C4_Witness ==
    /\ pc = "done" /\ Len(iters) = 2
    /\ \A i \in DOMAIN iters : EnvTrue(iters[i].getenv) /\ OutcomeAt(i) = "Simulated"
    /\ \E i \in DOMAIN iters :
          iters[i].getenv = <<"T", "r", "u", "e">>
    /\ \E i \in DOMAIN iters : iters[i].would_read = "enabled"
    /\ billing_enabled = billing_at_start

\* C5: when the budget lookup raises, the invocation ends there: an ERROR
\* entry carries the detail of that failure, no billing write is made, no
\* target is handled, and no WARNING (the empty-scope entry) is emitted.
C5_LookupFailureAborts ==
    \A k \in DOMAIN calls :
        (calls[k].api = "get_budget" /\ calls[k].response.kind = "raise") =>
            /\ pc = "done"
            /\ \E n \in DOMAIN log :
                  /\ log[n].level = "ERROR"
                  /\ log[n].msg = MsgLookupFailed
                  /\ log[n].args = << calls[k].response.detail >>
            /\ Updates = << >>
            /\ iters = << >>
            /\ Entries("WARNING") = << >>

C5_Witness ==
    /\ pc = "done" /\ Len(calls) = 1
    /\ calls[1].api = "get_budget"
    /\ calls[1].response.kind = "raise"
    /\ calls[1].response.detail = "Not Found"
    /\ Len(Entries("ERROR")) = 1

\* C6: when the lookup succeeds and the budget has no filter or an empty
\* project list, the invocation is done with a WARNING entry naming the
\* budget id, without any billing write and without any ERROR entry.
C6_EmptyScopeWarns ==
    (budget.kind = "ok" /\ (~budget.has_filter \/ Len(budget.projects) = 0)) =>
        /\ pc = "done"
        /\ \E n \in DOMAIN log :
              /\ log[n].level = "WARNING"
              /\ log[n].msg = MsgNotScoped
              /\ log[n].args = << attributes["budgetId"] >>
        /\ Updates = << >>
        /\ Entries("ERROR") = << >>

C6_Witness ==
    /\ pc = "done" /\ budget.kind = "ok"
    /\ budget.has_filter /\ budget.projects = << >>
    /\ Len(Entries("WARNING")) = 1

\* C7 as stated: a notification without billingAccountId, whatever its cost
\* and budget, ends before any budget lookup and with an ERROR entry.
C7_Original ==
    (pc # "idle" /\ HasAmounts /\ MissingAttr("billingAccountId")) =>
        /\ Lookups = << >>
        /\ Entries("ERROR") # << >>

\* C7 amended: a notification without billingAccountId never reaches the
\* budget lookup; it ends with the ERROR entry about billingAccountId when
\* cost > budget, and with the not-exceeded INFO entry and no ERROR entry
\* when cost <= budget.
C7_MissingAccountAborts ==
    (pc # "idle" /\ HasAmounts /\ MissingAttr("billingAccountId")) =>
        /\ pc = "done"
        /\ calls = << >>
        /\ Cost > Budget =>
              \E n \in DOMAIN log : log[n].level = "ERROR" /\ log[n].msg = MsgNoAccount
        /\ Cost <= Budget =>
              /\ Entries("ERROR") = << >>
              /\ Len(WithMsg(MsgNotExceeded)) = 1

C7_Witness ==
    /\ pc = "done" /\ HasAmounts /\ Cost > Budget
    /\ "billingAccountId" \notin DOMAIN attributes
    /\ ~MissingAttr("budgetId")
    /\ Len(WithMsg(MsgNoAccount)) = 1
    /\ calls = << >>

\* C8 as stated: a notification without budgetId, whatever its cost and
\* budget and with or without billingAccountId, ends before any budget
\* lookup and with an ERROR entry.
C8_Original ==
    (pc # "idle" /\ HasAmounts /\ MissingAttr("budgetId")) =>
        /\ Lookups = << >>
        /\ Entries("ERROR") # << >>

\* C8 amended: a notification without budgetId never reaches the budget
\* lookup; when cost > budget it ends with one ERROR entry, about budgetId if
\* billingAccountId is present and about billingAccountId otherwise; when
\* cost <= budget it ends with the not-exceeded INFO entry and no ERROR.
C8_MissingBudgetIdAborts ==
    (pc # "idle" /\ HasAmounts /\ MissingAttr("budgetId")) =>
        /\ pc = "done"
        /\ calls = << >>
        /\ Cost > Budget =>
              /\ Len(Entries("ERROR")) = 1
              /\ Entries("ERROR")[1].msg =
                    IF MissingAttr("billingAccountId") THEN MsgNoAccount ELSE MsgNoBudgetId
        /\ Cost <= Budget =>
              /\ Entries("ERROR") = << >>
              /\ Len(WithMsg(MsgNotExceeded)) = 1

C8_Witness ==
    /\ pc = "done" /\ HasAmounts /\ Cost > Budget
    /\ ~MissingAttr("billingAccountId")
    /\ "budgetId" \in DOMAIN attributes /\ attributes["budgetId"] = ""
    /\ Len(WithMsg(MsgNoBudgetId)) = 1
    /\ calls = << >>

\* C9 as stated: a target whose billing-state read would report "disabled"
\* gets no billing write, and an entry saying that billing is already
\* disabled for that target.
C9_Original ==
    \A i \in DOMAIN iters :
        (iters[i].would_read = "disabled" /\ ~EnvTrue(iters[i].getenv)) =>
            /\ CallsOf(i) = << >>
            /\ \E k \in DOMAIN LogOf(i) :
                  /\ LogOf(i)[k].msg = "Billing is already disabled for project {}"
                  /\ LogOf(i)[k].args = << project_ids[i] >>

\* C10 as stated: a target whose billing-state read would fail still gets
\* its billing write, after a WARNING entry saying that billing is assumed
\* to be enabled.
C10_Original ==
    \A i \in DOMAIN iters :
        (iters[i].would_read = "raise" /\ ~EnvTrue(iters[i].getenv)) =>
            /\ pc \in {"loop", "done"}
            /\ Len(CallsOf(i)) = 1
            /\ CallsOf(i)[1].api = "update_project_billing_info"
            /\ \E k \in DOMAIN LogOf(i) : LogOf(i)[k].level = "WARNING"

\* C11 as stated: a target whose billing-state read would raise gets no
\* billing write, and the entries "Unable to get billing info for project"
\* and "Assuming billing is disabled" are emitted for it.
C11_Original ==
    \A i \in DOMAIN iters :
        (iters[i].would_read = "raise" /\ ~EnvTrue(iters[i].getenv)) =>
            /\ \A k \in DOMAIN CallsOf(i) : CallsOf(i)[k].api # "update_project_billing_info"
            /\ \E k \in DOMAIN LogOf(i) :
                  LogOf(i)[k].msg = "Unable to get billing info for project {}"
            /\ \E k \in DOMAIN LogOf(i) :
                  LogOf(i)[k].msg = "Assuming billing is disabled"

\* C12 as stated: a target handled with simulation off gets exactly one
\* billing-state read, for projects/{id}, and the read comes before any
\* billing write for that target.
C12_Original ==
    \A i \in DOMAIN iters :
        ~EnvTrue(iters[i].getenv) =>
            \E k \in DOMAIN CallsOf(i) :
                /\ CallsOf(i)[k].api = "get_project_billing_info"
                /\ CallsOf(i)[k].name = << "projects", SEP >> \o project_ids[i]
                /\ \A n \in DOMAIN CallsOf(i) :
                      /\ CallsOf(i)[n].api = "get_project_billing_info" => n = k
                      /\ CallsOf(i)[n].api = "update_project_billing_info" => k < n

\* C13 as stated: no exception leaves disable_billing_for_projects, whatever
\* the input.
C13_Original == pc # "raised"

\* C14 as stated: a notification without costAmount or budgetAmount ends
\* the invocation with an ERROR entry and without any client call.
C14_Original ==
    (pc # "idle" /\ ~HasAmounts) =>
        /\ calls = << >>
        /\ Entries("ERROR") # << >>

C17_LoopRunsToCompletion ==
    /\ pc = "raised" => iters = << >>
    /\ Len(iters) <= Len(project_ids)
    /\ pc = "loop" => idx = Len(iters) + 1 /\ idx <= Len(project_ids)
    /\ (pc = "done" /\ budget.kind = "ok") => Len(iters) = Len(budget.projects)
    /\ \A i \in DOMAIN iters :
          /\ LogOf(i)[1].msg = "Disabling billing for {}..."
          /\ LogOf(i)[1].args = << << budget.projects[i][3] >> >>
          /\ Len(CallsOf(i)) <= 1
          /\ \A k \in DOMAIN CallsOf(i) :
                CallsOf(i)[k].response.kind # "ok" =>
                    /\ OutcomeAt(i) \in {"Failed:permission", "Failed:other"}
                    /\ LogOf(i)[Len(LogOf(i))].level = "ERROR"
                    /\ LogOf(i)[Len(LogOf(i))].args[1] = CallsOf(i)[k].name
          /\ i > 1 => iters[i].calls_from = iters[i - 1].calls_to + 1
          /\ i > 1 => iters[i].log_from = iters[i - 1].log_to + 1

C17_Witness ==
    /\ pc = "done" /\ Len(iters) = 2
    /\ OutcomeAt(1) = "Failed:other"
    /\ OutcomeAt(2) = "Failed:permission"
    /\ budget.projects[1] # budget.projects[2]

\* C18 as stated: within one invocation every target is handled under the
\* same flag value, all simulated or all submitted, even if the variable
\* changes while the loop is running.
C18_Original ==
    \A i, j \in DOMAIN iters :
        (OutcomeAt(i) = "Simulated") = (OutcomeAt(j) = "Simulated")

\* C18 amended: the flag is read anew for every target and never cached: a
\* target is simulated exactly when the variable says true at the moment
\* that target is reached, so a change while the loop is running, or between
\* two invocations, takes effect from the next target handled.
C18_FlagReadPerTarget ==
    \A i \in DOMAIN iters :
        /\ (OutcomeAt(i) = "Simulated") = EnvTrue(iters[i].getenv)
        /\ (CallsOf(i) = << >>) = EnvTrue(iters[i].getenv)

C18_Witness ==
    /\ pc = "done" /\ Len(iters) = 2
    /\ OutcomeAt(1) = "Simulated" /\ EnvTrue(iters[1].getenv)
    /\ OutcomeAt(2) = "Succeeded" /\ ~EnvTrue(iters[2].getenv)

AcceptedWrites(n) ==
    { k \in DOMAIN calls :
        /\ calls[k].api = "update_project_billing_info"
        /\ calls[k].name = n /\ calls[k].response.kind = "ok" }
    \cup
    { k \in DOMAIN other.calls :
        /\ other.calls[k].api = "update_project_billing_info"
        /\ other.calls[k].name = n /\ other.calls[k].response.kind = "ok" }

SuffixAfterFirst(p) ==
    LET k == CHOOSE i \in DOMAIN p : p[i] = SEP /\ \A j \in 1..(i - 1) : p[j] # SEP
    IN  SubSeq(p, k + 1, Len(p))

\* C21 as stated: the id a loop iteration works with is the whole suffix of
\* its scope path after the first separator, also when that suffix holds
\* separators, so a billing write for a path of the projects collection
\* names that very path.
C21_Original ==
    \A i \in DOMAIN iters :
        LET p == budget.projects[i]
        IN  /\ project_ids[i] = SuffixAfterFirst(p)
            /\ \A k \in DOMAIN CallsOf(i) :
                  p[1] = "projects" => CallsOf(i)[k].name = p

====
